---------------------------- MODULE Spec2Model ----------------------------
(***************************************************************************)
(* Model of group_21_rl_cpg:                                               *)
(*   - controllers/cpg.py   : the CPG oscillator (class CPG)               *)
(*   - scripts/test_agent.py: the PPO trainer (class LearningAgent)        *)
(*                                                                         *)
(* Numbers.  The program computes in floating point; the model computes    *)
(* in fixed point, and every product or quotient that does not fall on the *)
(* grid is rounded to the nearest grid point (RoundDiv), as a float        *)
(* operation rounds to the nearest float.  The grid is uniform, so effects *)
(* of the float grid being finer near zero than near 2*pi are not          *)
(* represented.  Units:                                                    *)
(*   amplitude, current_amplitude : 1e-6                                   *)
(*   frequency                    : 1e-5 Hz                                *)
(*   phase, current_phase         : 1e-6 rad (Pi = 3141593)                *)
(*   dt                           : 1e-3 s                                 *)
(*   sin, cos                     : 1e-3                                   *)
(*   foot position (x, z)         : 1e-6 m;  d_step, h, gc, gp : 1e-3 m    *)
(***************************************************************************)
EXTENDS Integers, Sequences, FiniteSets

VARIABLES
    osc,            \* the CPG object's fields (self.dt, self.amplitude, ...)
    foot,           \* the (x_foot, z_foot) last returned by CPG.update
    osc2,           \* a second CPG, driven with the same amplitude and
    foot2,          \*   frequency deltas as osc but its own phase deltas
    n_updates,      \* number of CPG.update calls since construction
    last_op,        \* the last CPG method called: "init", "update", "reset"
    pc,             \* LearningAgent.run: the position in the training loop
    ep,             \* the episode index of `for ep in range(episode_num)`
    timestep,       \* run's local `timestep`
    done,           \* run's local `done`
    episode_buffer, \* self.episode_buffer
    optimizer_steps, \* optimizer.step() calls of the last update cycle
    gae_in,         \* compute_advantages: its arguments (rewards,
                    \*   state_values, next_state_values, dones)
    gae_pc,         \* compute_advantages: the position in the function
    deltas,         \* compute_advantages: local `deltas`
    advantages,     \* compute_advantages: local `advantages`
    gae,            \* compute_advantages: local `gae`
    gae_t,          \* compute_advantages: loop variable `t` (1-based)
    ppo_in,         \* ppo_loss: its arguments and self.epsilon
    ppo_out,        \* ppo_loss: ratio, surr1, surr2 and the returned losses
    upd_pc,         \* update_network: the position in the epoch loops
    dataset_size,   \* update_network: local `dataset_size`
    indices,        \* update_network: local `indices`
    epoch,          \* update_network: epochs completed
    start_idx,      \* update_network: loop variable `start_idx`
    batch_indices,  \* update_network: local `batch_indices`
    seen,           \* how often each transition was in a minibatch this epoch
    n_opt_steps     \* optimizer.step() calls of this update cycle

cpgVars == <<osc, foot, osc2, foot2, n_updates, last_op>>

runVars == <<pc, ep, timestep, done, episode_buffer, optimizer_steps>>

gaeVars == <<gae_in, gae_pc, deltas, advantages, gae, gae_t>>

ppoVars == <<ppo_in, ppo_out>>

updVars == <<upd_pc, dataset_size, indices, epoch, start_idx, batch_indices,
             seen, n_opt_steps>>

vars == <<cpgVars, runVars, gaeVars, ppoVars, updVars>>

---------------------------------------------------------------------------
(* Fixed-point helpers *)

Abs(x) == IF x < 0 THEN -x ELSE x

Min2(a, b) == IF a <= b THEN a ELSE b

Max2(a, b) == IF a >= b THEN a ELSE b

\* a / b rounded to the nearest integer (b > 0)
RoundDiv(a, b) == (2 * a + b) \div (2 * b)

\* np.clip(x, lo, hi)
Clip(x, lo, hi) == Min2(Max2(x, lo), hi)

---------------------------------------------------------------------------
(* controllers/cpg.py *)

Pi == 3141593

TwoPi == 2 * Pi

AmpOne == 1000000

amplitude_min == 50000

amplitude_max == 350000

frequency_min == 10000

frequency_max == 300000

phase_min == -Pi

phase_max == Pi

d_step == 150

h == 300

gc == 100

gp == 0

convergence_rate == 30

default_amplitude == 10000

default_frequency == 50000

\* np.sin on [0, pi], Bhaskara's rational approximation evaluated on
\* centiradians; result in 1e-3
SinHalf(q) ==
    LET c == q \div 10000
        p == c * (314 - c)
    IN  (16 * p * 1000) \div (5 * 314 * 314 - 4 * p)

\* np.sin(x)
Sin(x) ==
    LET q == x % TwoPi
    IN  IF q <= Pi THEN SinHalf(q) ELSE -SinHalf(q - Pi)

\* np.cos(x)
Cos(x) == Sin(x + Pi \div 2)

\* the scaling of a raw delta to 0.5% of the parameter's range
ScaleDelta(raw, lo, hi) == RoundDiv(raw * ((hi - lo) * 5), 1000)

\* the object after __init__ / reset
NewCPG(dt, phase, amplitude, frequency) ==
    [dt |-> dt, amplitude |-> amplitude, frequency |-> frequency,
     phase |-> phase, current_amplitude |-> amplitude,
     current_phase |-> phase]

\* variant: the difference taken with the wrong sign
SmoothAmplitude_away(cur, amp, dt) ==
    cur + RoundDiv(convergence_rate * (cur - amp) * dt, 1000)

\* self.current_amplitude += convergence_rate * (amplitude - current_amplitude) * dt
SmoothAmplitude(cur, amp, dt) ==
    cur + RoundDiv(convergence_rate * (amp - cur) * dt, 1000)

\* variant: the phase integrated from the target `phase`
AdvancePhase_phase(o, freq) ==
    (o.phase + RoundDiv(freq * o.dt, 100)) % TwoPi

\* self.current_phase += self.frequency * self.dt, then wrapped
AdvancePhase(o, freq) ==
    (o.current_phase + RoundDiv(freq * o.dt, 100)) % TwoPi

\* variant: the clamp without its lower bound
ClampAmplitude_nolow(a) == Min2(a, amplitude_max)

\* np.clip(self.amplitude + amplitude_delta, amplitude_min, amplitude_max)
ClampAmplitude(a) == Clip(a, amplitude_min, amplitude_max)

\* np.clip(self.frequency + frequency_delta, frequency_min, frequency_max)
ClampFrequency(f) == Clip(f, frequency_min, frequency_max)

\* the fields of the object after update(amplitude_delta, frequency_delta, phase_delta)
UpdateFields(o, ad, fd, pd) ==
    LET amp  == ClampAmplitude(o.amplitude
                    + ScaleDelta(ad, amplitude_min, amplitude_max))
        freq == ClampFrequency(o.frequency
                    + ScaleDelta(fd, frequency_min, frequency_max))
        ph   == (o.phase + ScaleDelta(pd, phase_min, phase_max)) % TwoPi
    IN  [dt |-> o.dt, amplitude |-> amp, frequency |-> freq, phase |-> ph,
         current_amplitude |-> SmoothAmplitude(o.current_amplitude, amp, o.dt),
         current_phase |-> AdvancePhase(o, freq)]

\* the (x_foot, z_foot) computed from the updated fields
FootPosition(o) ==
    LET s == Sin(o.current_phase)
        c == Cos(o.current_phase)
        a == RoundDiv(o.current_amplitude - AmpOne, 1000)
        x == -RoundDiv(d_step * a * c, 1000)
        z == IF s > 0 THEN -h * 1000 + gc * s
                      ELSE -h * 1000 + gp * s
    IN  <<x, z>>

---------------------------------------------------------------------------
(* Bounds and input sets of the oscillator specifications *)

MaxUpdates == 2

MaxZeroUpdates == 1300

RawDeltas == {-1, 0, 1}

DtChoices == {2, 10}

InitAmplitudes == {default_amplitude, amplitude_max}

InitFrequencies == {default_frequency, frequency_max}

InitPhases == {0, -Pi, TwoPi - 3000}

cpgIdle ==
    /\ osc = NewCPG(10, 0, default_amplitude, default_frequency)
    /\ osc2 = osc
    /\ foot = <<0, 0>>
    /\ foot2 = <<0, 0>>
    /\ n_updates = 0
    /\ last_op = "init"

runIdle ==
    /\ pc = "idle"
    /\ ep = 0
    /\ timestep = 0
    /\ done = FALSE
    /\ episode_buffer = <<>>
    /\ optimizer_steps = 0

gaeIdle ==
    /\ gae_in = [rewards |-> <<>>, state_values |-> <<>>,
                 next_state_values |-> <<>>, dones |-> <<>>]
    /\ gae_pc = "idle"
    /\ deltas = <<>>
    /\ advantages = <<>>
    /\ gae = 0
    /\ gae_t = 0

ppoIdle ==
    /\ ppo_in = <<>>
    /\ ppo_out = <<>>

updIdle ==
    /\ upd_pc = "idle"
    /\ dataset_size = 0
    /\ indices = <<>>
    /\ epoch = 0
    /\ start_idx = 0
    /\ batch_indices = <<>>
    /\ seen = <<>>
    /\ n_opt_steps = 0

---------------------------------------------------------------------------
(* CPGSpec: one oscillator (and its twin) under arbitrary deltas *)

InitCPG ==
    /\ \E dt \in DtChoices, p \in InitPhases, a \in InitAmplitudes,
          f \in InitFrequencies :
          osc = NewCPG(dt, p, a, f)
    /\ osc2 = osc
    /\ foot = <<0, 0>>
    /\ foot2 = <<0, 0>>
    /\ n_updates = 0
    /\ last_op = "init"
    /\ runIdle /\ gaeIdle /\ ppoIdle /\ updIdle

\* CPG.update on osc and, with the same amplitude and frequency deltas
\* but phase delta pd2, on osc2
Update(ad, fd, pd, pd2) ==
    /\ n_updates < MaxUpdates
    /\ osc' = UpdateFields(osc, ad, fd, pd)
    /\ foot' = FootPosition(osc')
    /\ osc2' = UpdateFields(osc2, ad, fd, pd2)
    /\ foot2' = FootPosition(osc2')
    /\ n_updates' = n_updates + 1
    /\ last_op' = "update"
    /\ UNCHANGED <<runVars, gaeVars, ppoVars, updVars>>

\* CPG.reset on both oscillators
Reset(p, a, f) ==
    /\ n_updates > 0
    /\ osc' = NewCPG(osc.dt, p, a, f)
    /\ osc2' = NewCPG(osc2.dt, p, a, f)
    /\ last_op' = "reset"
    /\ UNCHANGED <<foot, foot2, n_updates>>
    /\ UNCHANGED <<runVars, gaeVars, ppoVars, updVars>>

NextCPG ==
    \/ \E ad \in RawDeltas, fd \in RawDeltas, pd \in RawDeltas,
          pd2 \in RawDeltas : Update(ad, fd, pd, pd2)
    \/ \E p \in InitPhases, a \in InitAmplitudes, f \in InitFrequencies :
          Reset(p, a, f)

CPGSpec == InitCPG /\ [][NextCPG]_vars

---------------------------------------------------------------------------
(* CPGZeroSpec: CPG(dt=0.01, phase=0) with the default amplitude and
   frequency, updated with zero deltas *)

InitZero == cpgIdle /\ runIdle /\ gaeIdle /\ ppoIdle /\ updIdle

ZeroUpdate ==
    /\ n_updates < MaxZeroUpdates
    /\ osc' = UpdateFields(osc, 0, 0, 0)
    /\ foot' = FootPosition(osc')
    /\ UNCHANGED <<osc2, foot2>>
    /\ n_updates' = n_updates + 1
    /\ last_op' = "update"
    /\ UNCHANGED <<runVars, gaeVars, ppoVars, updVars>>

NextZero == ZeroUpdate

CPGZeroSpec == InitZero /\ [][NextZero]_vars

---------------------------------------------------------------------------
(* scripts/test_agent.py: LearningAgent.run *)

max_timestep == 1000

rollout_steps == 100

epochs == 10

episode_num == 10

batch_size == 32

\* range(0, dataset_size, batch_size)
BatchStarts(n) ==
    {s \in 0 .. n - 1 : s % batch_size = 0}

\* variant: the cap compared with <=
LoopGuard_offbyone(d, t) == ~d /\ t <= max_timestep

\* the condition of `while not done and timestep < self.max_timestep`
LoopGuard(d, t) == ~d /\ t < max_timestep

\* variant: an update only when the episode terminated
UpdateTrigger_doneonly(d, t) == d

\* the condition of `if done or timestep % self.rollout_steps == 0`
UpdateTrigger(d, t) == d \/ t % rollout_steps = 0

\* variant: the buffer kept after the update cycle
BufferAfterUpdate_kept(buf) == buf

\* self.episode_buffer = [] after the update cycle
BufferAfterUpdate(buf) == <<>>

InitRun ==
    /\ cpgIdle /\ gaeIdle /\ ppoIdle /\ updIdle
    /\ pc = "for"
    /\ ep = 0
    /\ timestep = 0
    /\ done = FALSE
    /\ episode_buffer = <<>>
    /\ optimizer_steps = 0

\* lines 42-45: the head of one episode
EpisodeReset ==
    /\ pc = "for"
    /\ ep < episode_num
    /\ done' = FALSE
    /\ timestep' = 0
    /\ pc' = "while"
    /\ UNCHANGED <<ep, episode_buffer, optimizer_steps>>
    /\ UNCHANGED <<cpgVars, gaeVars, ppoVars, updVars>>

\* lines 47-75: one pass of the while body up to the update test; d is
\* the done flag env.step returns
EnvStep(d) ==
    /\ pc = "while"
    /\ LoopGuard(done, timestep)
    /\ done' = d
    /\ episode_buffer' =
           Append(episode_buffer, [ep |-> ep, t |-> timestep, done |-> d])
    /\ timestep' = timestep + 1
    /\ pc' = "trigger"
    /\ UNCHANGED <<ep, optimizer_steps>>
    /\ UNCHANGED <<cpgVars, gaeVars, ppoVars, updVars>>

\* line 78: the update test
TriggerTest ==
    /\ pc = "trigger"
    /\ pc' = IF UpdateTrigger(done, timestep) THEN "update" ELSE "while"
    /\ UNCHANGED <<ep, timestep, done, episode_buffer, optimizer_steps>>
    /\ UNCHANGED <<cpgVars, gaeVars, ppoVars, updVars>>

\* lines 79-80: update_network() over the buffer, then the buffer is cleared
UpdateCycle ==
    /\ pc = "update"
    /\ optimizer_steps' = epochs * Cardinality(BatchStarts(Len(episode_buffer)))
    /\ episode_buffer' = BufferAfterUpdate(episode_buffer)
    /\ pc' = "while"
    /\ UNCHANGED <<ep, timestep, done>>
    /\ UNCHANGED <<cpgVars, gaeVars, ppoVars, updVars>>

\* lines 82-85: the while loop is left, the episode is logged
EpisodeEnd ==
    /\ pc = "while"
    /\ ~LoopGuard(done, timestep)
    /\ ep' = ep + 1
    /\ pc' = "for"
    /\ UNCHANGED <<timestep, done, episode_buffer, optimizer_steps>>
    /\ UNCHANGED <<cpgVars, gaeVars, ppoVars, updVars>>

\* lines 87-89: the for loop is exhausted, environment and writer closed
Close ==
    /\ pc = "for"
    /\ ep >= episode_num
    /\ pc' = "closed"
    /\ UNCHANGED <<ep, timestep, done, episode_buffer, optimizer_steps>>
    /\ UNCHANGED <<cpgVars, gaeVars, ppoVars, updVars>>

NextRun ==
    \/ EpisodeReset
    \/ \E d \in BOOLEAN : EnvStep(d)
    \/ TriggerTest
    \/ UpdateCycle
    \/ EpisodeEnd
    \/ Close

RunSpec == InitRun /\ [][NextRun]_vars

\* every step of run returns (no blocking call in the model), so the loop
\* keeps going while a step is possible
FairRunSpec == RunSpec /\ WF_vars(NextRun)

---------------------------------------------------------------------------
(* scripts/test_agent.py: LearningAgent.compute_advantages

   rewards, values and next values are whole numbers; deltas, gae and
   advantages are in units of 1e-8, fine enough for a three-step buffer to
   be computed without rounding. *)

gamma == 99

lam == 95

GScale == 10000 * 10000

\* x * num / den, rounded to the nearest unit, without overflowing
MulFrac(x, num, den) ==
    (x \div den) * num + RoundDiv((x % den) * num, den)

\* variant: the bootstrap term not masked by (1 - dones)
Delta_nomask(r, v, nv, d) ==
    r * GScale + MulFrac(nv * GScale, gamma, 100) - v * GScale

\* one entry of `rewards + self.gamma * next_state_values * (1 - dones) - state_values`
Delta(r, v, nv, d) ==
    r * GScale + MulFrac(nv * GScale, gamma, 100) * (1 - d) - v * GScale

\* variant: the trace decayed by gamma alone
GaeNext_nolam(delta, d, g) ==
    delta + MulFrac((1 - d) * g, gamma, 100)

\* deltas[t] + self.gamma * self.lam * (1 - dones[t]) * gae
GaeNext(delta, d, g) ==
    delta + MulFrac((1 - d) * g, gamma * lam, 100 * 100)

MaxLen == 3

RewardVals == {-1, 1}

ValueVals == {0, 1}

InitGae ==
    /\ cpgIdle /\ runIdle /\ ppoIdle /\ updIdle
    /\ \E n \in 1 .. MaxLen :
          gae_in \in [rewards : [1 .. n -> RewardVals],
                      state_values : [1 .. n -> ValueVals],
                      next_state_values : [1 .. n -> ValueVals],
                      dones : [1 .. n -> {0, 1}]]
    /\ gae_pc = "deltas"
    /\ deltas = <<>>
    /\ advantages = <<>>
    /\ gae = 0
    /\ gae_t = 0

\* lines 161-163: the vectorised deltas, the zero tensor, gae = 0
GaeDeltas ==
    /\ gae_pc = "deltas"
    /\ deltas' = [i \in 1 .. Len(gae_in.rewards) |->
                      Delta(gae_in.rewards[i], gae_in.state_values[i],
                            gae_in.next_state_values[i], gae_in.dones[i])]
    /\ advantages' = [i \in 1 .. Len(gae_in.rewards) |-> 0]
    /\ gae' = 0
    /\ gae_t' = Len(gae_in.rewards)
    /\ gae_pc' = "loop"
    /\ UNCHANGED gae_in
    /\ UNCHANGED <<cpgVars, runVars, ppoVars, updVars>>

\* lines 164-166: one pass of `for t in reversed(range(len(rewards)))`
GaeIter ==
    /\ gae_pc = "loop"
    /\ gae_t >= 1
    /\ gae' = GaeNext(deltas[gae_t], gae_in.dones[gae_t], gae)
    /\ advantages' = [advantages EXCEPT ![gae_t] = gae']
    /\ gae_t' = gae_t - 1
    /\ UNCHANGED <<gae_in, gae_pc, deltas>>
    /\ UNCHANGED <<cpgVars, runVars, ppoVars, updVars>>

\* line 167: return advantages
GaeReturn ==
    /\ gae_pc = "loop"
    /\ gae_t = 0
    /\ gae_pc' = "done"
    /\ UNCHANGED <<gae_in, deltas, advantages, gae, gae_t>>
    /\ UNCHANGED <<cpgVars, runVars, ppoVars, updVars>>

NextGae == GaeDeltas \/ GaeIter \/ GaeReturn

GaeSpec == InitGae /\ [][NextGae]_vars

---------------------------------------------------------------------------
(* scripts/test_agent.py: LearningAgent.ppo_loss

   log-probabilities, ratios, advantages, values, returns, entropies and
   losses are in units of 1e-3. *)

One == 1000

epsilon == 200

entropy_coef == 10

\* torch.exp(x): the Taylor series up to the fourth power
Exp(x) ==
    LET t1 == x
        t2 == RoundDiv(t1 * x, 2 * One)
        t3 == RoundDiv(t2 * x, 3 * One)
        t4 == RoundDiv(t3 * x, 4 * One)
    IN  One + t1 + t2 + t3 + t4

\* variant: the difference of the log-probabilities taken as the ratio
Ratio_noexp(lp, lpo) == lp - lpo

\* one entry of torch.exp(log_probs - log_probs_old)
Ratio(lp, lpo) == Exp(lp - lpo)

\* torch.clamp(r, 1.0 - eps, 1.0 + eps)
Clamp(r, eps) == Clip(r, One - eps, One + eps)

\* a * b of two 1e-3 numbers
Mul(a, b) == RoundDiv(a * b, One)

RECURSIVE SeqSum(_)
SeqSum(s) == IF s = <<>> THEN 0 ELSE Head(s) + SeqSum(Tail(s))

\* tensor.mean()
Mean(s) == RoundDiv(SeqSum(s), Len(s))

\* everything ppo_loss computes from its arguments a and self.epsilon
PpoLoss(a) ==
    LET n       == Len(a.log_probs)
        ratio   == [i \in 1 .. n |-> Ratio(a.log_probs[i], a.log_probs_old[i])]
        surr1   == [i \in 1 .. n |-> Mul(ratio[i], a.advantages[i])]
        surr2   == [i \in 1 .. n |->
                       Mul(Clamp(ratio[i], a.epsilon), a.advantages[i])]
        policy  == -Mean([i \in 1 .. n |-> Min2(surr1[i], surr2[i])])
        value   == Mean([i \in 1 .. n |->
                       Mul(a.vr[i][1] - a.vr[i][2], a.vr[i][1] - a.vr[i][2])])
        bonus   == Mean(a.entropy)
        total   == policy + RoundDiv(value, 2)
                     - RoundDiv(entropy_coef * bonus, One)
    IN  [ratio |-> ratio, surr1 |-> surr1, surr2 |-> surr2,
         policy_loss |-> policy, value_loss |-> value, total_loss |-> total]

MaxBatch == 2

LogProbVals == {-500, 0}

AdvantageVals == {-1000, 0, 500}

\* (predicted value, return) pairs
ValueReturnVals == {<<1000, 1500>>, <<2000, 2500>>, <<1000, 2500>>}

EntropyVals == {1400}

\* self.epsilon is 0.2; the other values stand for a caller that set the
\* field to another clip range
EpsilonVals == {0, epsilon, 1500}

InitPpo ==
    /\ cpgIdle /\ runIdle /\ gaeIdle /\ updIdle
    /\ \E n \in 1 .. MaxBatch :
          ppo_in \in [log_probs : [1 .. n -> LogProbVals],
                      log_probs_old : [1 .. n -> LogProbVals],
                      advantages : [1 .. n -> AdvantageVals],
                      vr : [1 .. n -> ValueReturnVals],
                      entropy : [1 .. n -> EntropyVals],
                      epsilon : EpsilonVals]
    /\ ppo_out = <<>>

\* lines 186-203: the call of ppo_loss
ComputeLoss ==
    /\ ppo_out = <<>>
    /\ ppo_out' = PpoLoss(ppo_in)
    /\ UNCHANGED ppo_in
    /\ UNCHANGED <<cpgVars, runVars, gaeVars, updVars>>

NextPpo == ComputeLoss

PpoSpec == InitPpo /\ [][NextPpo]_vars

---------------------------------------------------------------------------
(* scripts/test_agent.py: LearningAgent.update_network, lines 111-142 *)

\* np.arange(n)
Arange(n) == [i \in 1 .. n |-> i - 1]

Reverse(s) == [i \in 1 .. Len(s) |-> s[Len(s) + 1 - i]]

RotateLeft(s) == IF s = <<>> THEN s ELSE Append(Tail(s), Head(s))

\* all orderings of the sequence s
Permutations(s) ==
    {p \in [1 .. Len(s) -> {s[i] : i \in 1 .. Len(s)}] :
        \A x \in 1 .. Len(s) : \E y \in 1 .. Len(s) : p[y] = s[x]}

MaxFullShuffle == 3

\* the outcomes of np.random.shuffle(indices): every ordering of a short
\* array; of a longer one the array as it is, reversed or rotated
Shuffles(s) ==
    IF Len(s) <= MaxFullShuffle
    THEN Permutations(s)
    ELSE {s, Reverse(s), RotateLeft(s)}

\* variant: the slice one element short
SliceEnd_short(start, n) == Min2(start + batch_size - 1, n)

\* the end of the slice indices[start_idx:end_idx] of an array of length n
SliceEnd(start, n) == Min2(start + batch_size, n)

\* the buffer lengths update_network is called with
DatasetSizes == 1 .. rollout_steps

InitUpd ==
    /\ cpgIdle /\ runIdle /\ gaeIdle /\ ppoIdle
    /\ dataset_size \in DatasetSizes
    /\ indices = Arange(dataset_size)
    /\ upd_pc = "epoch"
    /\ epoch = 0
    /\ start_idx = 0
    /\ batch_indices = <<>>
    /\ seen = [i \in 0 .. dataset_size - 1 |-> 0]
    /\ n_opt_steps = 0

\* lines 114-116: the head of one epoch
Shuffle ==
    /\ upd_pc = "epoch"
    /\ epoch < epochs
    /\ indices' \in Shuffles(indices)
    /\ start_idx' = 0
    /\ seen' = [i \in 0 .. dataset_size - 1 |-> 0]
    /\ upd_pc' = "batch"
    /\ UNCHANGED <<dataset_size, epoch, batch_indices, n_opt_steps>>
    /\ UNCHANGED <<cpgVars, runVars, gaeVars, ppoVars>>

\* lines 116-146: one minibatch: the slice, the loss, one optimizer step
Minibatch ==
    /\ upd_pc = "batch"
    /\ start_idx < dataset_size
    /\ batch_indices' =
           SubSeq(indices, start_idx + 1, SliceEnd(start_idx, dataset_size))
    /\ seen' = [i \in 0 .. dataset_size - 1 |->
                   seen[i] + Cardinality({k \in 1 .. Len(batch_indices') :
                                             batch_indices'[k] = i})]
    /\ n_opt_steps' = n_opt_steps + 1
    /\ start_idx' = start_idx + batch_size
    /\ UNCHANGED <<upd_pc, dataset_size, indices, epoch>>
    /\ UNCHANGED <<cpgVars, runVars, gaeVars, ppoVars>>

\* the inner range is exhausted
EpochEnd ==
    /\ upd_pc = "batch"
    /\ start_idx >= dataset_size
    /\ epoch' = epoch + 1
    /\ upd_pc' = "epoch"
    /\ UNCHANGED <<dataset_size, indices, start_idx, batch_indices, seen,
                   n_opt_steps>>
    /\ UNCHANGED <<cpgVars, runVars, gaeVars, ppoVars>>

\* the outer range is exhausted: update_network returns
UpdReturn ==
    /\ upd_pc = "epoch"
    /\ epoch >= epochs
    /\ upd_pc' = "done"
    /\ UNCHANGED <<dataset_size, indices, epoch, start_idx, batch_indices,
                   seen, n_opt_steps>>
    /\ UNCHANGED <<cpgVars, runVars, gaeVars, ppoVars>>

NextUpd == Shuffle \/ Minibatch \/ EpochEnd \/ UpdReturn

UpdSpec == InitUpd /\ [][NextUpd]_vars

---------------------------------------------------------------------------
(* Claims about the oscillator *)

Dist == Abs(osc.amplitude - osc.current_amplitude)

\* current_phase advances by frequency * dt = 0.5 * 0.01 modulo 2*pi
C7_PhaseStep ==
    osc'.current_phase = (osc.current_phase + 5000) % TwoPi

\* C7 as stated: with dt = 0.01, phase = 0, amplitude = 0.01, frequency = 0.5
\* and zero deltas, |amplitude - current_amplitude| after each update is
\* strictly smaller than after the previous update, and current_phase
\* increases by 0.5 * 0.01 per update modulo 2*pi.
C7_StrictlyDecreasing ==
    [][n_updates' = n_updates + 1 =>
          /\ C7_PhaseStep
          /\ (n_updates >= 1 => Dist' < Dist)]_vars

\* C7 amended: the first update lifts amplitude from 0.01 to the clamped
\* 0.05 and so raises the distance from 0 to 0.028; from the second update
\* on the distance never increases, and it strictly decreases as long as it
\* is larger than one unit of the arithmetic's resolution; current_phase
\* increases by 0.5 * 0.01 per update modulo 2*pi.
C7_Converges ==
    [][n_updates' = n_updates + 1 =>
          /\ C7_PhaseStep
          /\ (n_updates = 0 => Dist = 0 /\ Dist' = 28000)
          /\ (n_updates >= 1 => Dist' <= Dist /\ (Dist > 1 => Dist' < Dist))]_vars

\* C7 witness: after enough zero-delta updates current_phase has wrapped
\* past 2*pi and current_amplitude sits one unit from amplitude.
C7_Witness ==
    /\ n_updates = 1257
    /\ osc.current_phase < 5000
    /\ osc.amplitude = amplitude_min
    /\ Dist = 1

\* C10: two oscillators in the same state, driven with the same amplitude
\* and frequency deltas and arbitrary, different phase deltas, return the
\* same (x, z) and agree on amplitude, frequency, current_amplitude and
\* current_phase after every step.
C10_PhaseDeltaIgnored ==
    /\ foot = foot2
    /\ osc.amplitude = osc2.amplitude
    /\ osc.frequency = osc2.frequency
    /\ osc.current_amplitude = osc2.current_amplitude
    /\ osc.current_phase = osc2.current_phase

\* C10 witness: after two updates the two targets `phase` differ.
C10_Witness ==
    /\ last_op = "update"
    /\ n_updates = 2
    /\ osc.phase # osc2.phase
    /\ foot[1] # 0

---------------------------------------------------------------------------
(* Claims about LearningAgent.run *)

\* C2: after every environment step an update cycle runs if and only if
\* the episode terminated at that step or the buffer holds exactly
\* rollout_steps transitions; at the test, timestep % rollout_steps = 0
\* coincides with Len(episode_buffer) = rollout_steps, in every episode.
C2_UpdateTrigger ==
    /\ [](pc = "trigger" =>
            (timestep % rollout_steps = 0
                <=> Len(episode_buffer) = rollout_steps))
    /\ [][pc = "trigger" =>
            (pc' = "update"
                <=> (done \/ Len(episode_buffer) = rollout_steps))]_vars
    /\ [][pc' = "update" => pc \in {"trigger", "update"}]_vars

\* C2 witness: in the fourth episode an update cycle is about to run on a
\* full buffer of an episode that has not terminated.
C2_Witness ==
    /\ pc = "update"
    /\ ep = 3
    /\ ~done
    /\ timestep = 3 * rollout_steps
    /\ Len(episode_buffer) = rollout_steps

\* C3: the buffer never holds more than rollout_steps transitions, it is
\* empty right after every update cycle and at the start of every episode,
\* and it never holds a transition of an earlier episode.
C3_BufferBounded ==
    /\ [](Len(episode_buffer) <= rollout_steps)
    /\ [](pc = "for" => episode_buffer = <<>>)
    /\ [](\A i \in 1 .. Len(episode_buffer) : episode_buffer[i].ep = ep)
    /\ [][pc = "update" /\ pc' # "update" => episode_buffer' = <<>>]_vars

\* C3 witness: the first episode ran into the max_timestep cap without the
\* environment signalling done, and the second starts on an empty buffer.
C3_Witness ==
    /\ pc = "for"
    /\ ep = 1
    /\ ~done
    /\ timestep = max_timestep
    /\ episode_buffer = <<>>
    /\ optimizer_steps > 0

\* C8: no episode takes more than max_timestep steps, no step is taken
\* after done, an episode ends only on done or at the cap, and the run
\* terminates after exactly episode_num episodes.
C8_RunTerminates ==
    /\ [](timestep <= max_timestep)
    /\ [][timestep' = timestep + 1 => ~done /\ timestep < max_timestep]_vars
    /\ [][ep' = ep + 1 => done \/ timestep = max_timestep]_vars
    /\ [](pc = "closed" => ep = episode_num)
    /\ <>(pc = "closed")

\* C8 witness: the run is closed after episode_num episodes, the last of
\* which ended at the cap.
C8_Witness ==
    /\ pc = "closed"
    /\ ep = episode_num
    /\ ~done
    /\ timestep = max_timestep

---------------------------------------------------------------------------
(* Claims about compute_advantages *)

\* C4: at every index i with dones[i] = 1 the advantage is
\* rewards[i] - state_values[i], whatever next_state_values[i] and the
\* later transitions are; a single-step buffer with done = 1 is one case.
C4_DoneCutsTrace ==
    gae_pc = "done" =>
        \A i \in 1 .. Len(advantages) :
            gae_in.dones[i] = 1 =>
                advantages[i] =
                    (gae_in.rewards[i] - gae_in.state_values[i]) * GScale

\* C4 witness: a three-step buffer whose first transition is terminal, has
\* a non-zero next value and is followed by a non-zero advantage.
C4_Witness ==
    /\ gae_pc = "done"
    /\ Len(advantages) = 3
    /\ gae_in.dones = <<1, 0, 0>>
    /\ gae_in.next_state_values[1] = 1
    /\ advantages[2] # 0

\* the reference recursion, from the arguments:
\*   delta[i] = reward[i] + gamma * next_value[i] * (1 - done[i]) - value[i]
\*   A[i] = delta[i] + gamma * lambda * (1 - done[i]) * A[i+1],  A[n+1] = 0
RECURSIVE RefAdvantage(_)
RefAdvantage(i) ==
    IF i > Len(gae_in.rewards) THEN 0
    ELSE LET delta == gae_in.rewards[i] * GScale
                      + gamma * gae_in.next_state_values[i]
                           * (1 - gae_in.dones[i]) * (GScale \div 100)
                      - gae_in.state_values[i] * GScale
         IN  delta + MulFrac((1 - gae_in.dones[i]) * RefAdvantage(i + 1),
                             gamma * lam, 10000)

C5_Example ==
    /\ gae_in.rewards = <<1, 1, 1>>
    /\ gae_in.state_values = <<0, 0, 0>>
    /\ gae_in.next_state_values = <<0, 0, 0>>
    /\ gae_in.dones = <<0, 0, 1>>

\* C5: the advantages returned equal the reference backward recursion for
\* every input; for rewards [1,1,1], values [0,0,0], next values [0,0,0],
\* dones [0,0,1] they are 1, 1 + 0.9405 * 1 = 1.9405 and
\* 1 + 0.9405 * 1.9405 = 2.82504025 (last to first).
C5_MatchesReference ==
    gae_pc = "done" =>
        /\ \A i \in 1 .. Len(advantages) : advantages[i] = RefAdvantage(i)
        /\ C5_Example => advantages = <<282504025, 194050000, 100000000>>

\* C5 witness: compute_advantages has returned on the example buffer.
C5_Witness ==
    /\ gae_pc = "done"
    /\ C5_Example
    /\ advantages[1] > advantages[2]

---------------------------------------------------------------------------
(* Claims about ppo_loss *)

\* C6: when log_probs equals log_probs_old in every entry, every ratio is
\* 1, the clipped and unclipped terms are equal entry by entry and
\* policy_loss is -mean(advantages), for any advantages and any
\* epsilon >= 0.
C6_UnitRatio ==
    (ppo_out # <<>> /\ ppo_in.log_probs = ppo_in.log_probs_old) =>
        /\ \A i \in 1 .. Len(ppo_out.ratio) :
              /\ ppo_out.ratio[i] = One
              /\ ppo_out.surr1[i] = ppo_out.surr2[i]
        /\ ppo_out.policy_loss = -Mean(ppo_in.advantages)

\* C6 witness: ppo_loss has returned for equal non-zero log-probabilities,
\* advantages of both signs and epsilon = 0.
C6_Witness ==
    /\ ppo_out # <<>>
    /\ ppo_in.log_probs = <<-500, 0>>
    /\ ppo_in.log_probs_old = <<-500, 0>>
    /\ ppo_in.advantages = <<-1000, 500>>
    /\ ppo_in.epsilon = 0
    /\ ppo_out.policy_loss = 250

---------------------------------------------------------------------------
(* Claims about update_network *)

\* a minibatch of the current epoch has just been processed
C9_BatchTaken == upd_pc = "batch" /\ start_idx > 0

\* within an epoch no transition is in two minibatches, and at the end of
\* the epoch every transition has been in exactly one
C9_Partition ==
    /\ C9_BatchTaken =>
          \A i \in 0 .. dataset_size - 1 : seen[i] <= 1
    /\ (C9_BatchTaken /\ start_idx >= dataset_size) =>
          \A i \in 0 .. dataset_size - 1 : seen[i] = 1

\* the cycle runs exactly `epochs` epochs, with one optimizer step for
\* each of the ceil(dataset_size / batch_size) minibatches of an epoch
C9_Steps ==
    upd_pc = "done" =>
        /\ epoch = epochs
        /\ n_opt_steps =
              epochs * ((dataset_size + batch_size - 1) \div batch_size)

\* C9 as stated: in every epoch, for any buffer length from 1 to
\* rollout_steps, each transition is in exactly one minibatch, every
\* minibatch holds exactly batch_size transitions, one optimizer step is
\* applied per minibatch and the cycle runs exactly `epochs` epochs.
C9_FixedSizeBatches ==
    /\ C9_Partition
    /\ C9_Steps
    /\ C9_BatchTaken => Len(batch_indices) = batch_size

\* C9 amended: as stated, but a minibatch holds exactly batch_size
\* transitions only if it is not the last of its epoch; the last one holds
\* the remaining dataset_size - batch_size * (number of earlier minibatches)
\* transitions, between 1 and batch_size.
C9_BatchesPartition ==
    /\ C9_Partition
    /\ C9_Steps
    /\ C9_BatchTaken =>
          /\ 1 <= Len(batch_indices) /\ Len(batch_indices) <= batch_size
          /\ start_idx < dataset_size => Len(batch_indices) = batch_size
          /\ start_idx >= dataset_size =>
                Len(batch_indices) = dataset_size - (start_idx - batch_size)

\* C9 witness: the last epoch of a cycle over a full buffer of rollout_steps
\* transitions has taken its fourth, short minibatch of a shuffled array.
C9_Witness ==
    /\ upd_pc = "batch"
    /\ dataset_size = rollout_steps
    /\ epoch = epochs - 1
    /\ start_idx = 4 * batch_size
    /\ Len(batch_indices) = rollout_steps - 3 * batch_size
    /\ indices # Arange(dataset_size)

===========================================================================
